---- MODULE Spec2Model ----
(***************************************************************************)
(* GetK8sResources of pkg/client: the reconciliation of the four listed    *)
(* collections (nodes, ResourceSlices, ResourceClaims, pods) into one      *)
(* NodeInfo per node.                                                      *)
(*                                                                         *)
(* Data encoding.  A Go map is a TLA+ function whose DOMAIN is the key     *)
(* set; a pointer is a sequence of length 0 (nil) or 1; a                  *)
(* resource.Quantity is an integer (Quantity arithmetic is exact and       *)
(* unbounded, the zero Quantity is 0); a string is a TLA+ string, so that  *)
(* fmt.Sprintf("%s-%s", a, b) is a \o "-" \o b.                            *)
(***************************************************************************)
EXTENDS Integers, Sequences, FiniteSets, TLC

VARIABLES
    cluster,             \* what the API server holds: [nodes, slices, claims, pods]
    pc,                  \* position inside GetK8sResources
    nodes,               \* local: result of getNodes
    resourceSlices,      \* local: result of getResourceSlices
    resourceClaims,      \* local: result of getResourceClaims
    pods,                \* local: result of getPods
    requestedResources,  \* local: map nodeName -> ResourceList
    allocatedDevices,    \* local: map sliceIdentifier -> set of device names
    nodeMap,             \* local: map nodeName -> NodeInfo
    ni,                  \* position of the loop over nodes
    si,                  \* position of the loop over resourceSlices
    nodeInfoList,        \* returned list
    err,                 \* returned error
    calls,               \* the list calls made on the client, in order, each with its error
    previous             \* what an earlier call against the cluster returned, if any

vars == <<cluster, pc, nodes, resourceSlices, resourceClaims, pods,
          requestedResources, allocatedDevices, nodeMap, ni, si,
          nodeInfoList, err, calls, previous>>

----------------------------------------------------------------------------
(* Bounds of the explored inputs. *)
MaxNodes == 2
MaxSlices == 2
MaxClaims == 2
MaxPods == 2

SeqsUpTo(S, n) == UNION {[1..k -> S] : k \in 0..n}

----------------------------------------------------------------------------
(* Library constants and helpers. *)
ResourceCPU == "cpu"
ResourceMemory == "memory"
ResourceStorage == "storage"
NvidiaDriver == "gpu.nvidia.com"
RolePrefix == "node-role.kubernetes.io/"
NoRole == "<none>"
NoError == ""

EmptyMap == [x \in {} |-> 0]

\* rl[name] on a corev1.ResourceList: the zero Quantity when the key is absent.
Quantity(rl, name) == IF name \in DOMAIN rl THEN rl[name] ELSE 0

\* strings.HasPrefix
HasPrefix(s, prefix) ==
    /\ Len(s) >= Len(prefix)
    /\ SubSeq(s, 1, Len(prefix)) = prefix

\* strings.TrimPrefix
TrimPrefix(s, prefix) ==
    IF HasPrefix(s, prefix) THEN SubSeq(s, Len(prefix) + 1, Len(s)) ELSE s

\* fmt.Sprintf("%s-%s", driver, pool)
SliceIdentifier(driver, pool) == driver \o "-" \o pool

\* The orders in which a range over a map with key set S can visit the keys.
Orders(S) ==
    {o \in [1..Cardinality(S) -> S] : \A a, b \in 1..Cardinality(S) : a # b => o[a] # o[b]}

----------------------------------------------------------------------------
(* Lines 96-116: total requested resources per node. *)

\* AddRequests with the existing sum replaced instead of added to.
AddRequestsOverwrite(acc, requests) ==
    [r \in DOMAIN acc \cup DOMAIN requests |->
        IF r \in DOMAIN requests THEN requests[r] ELSE acc[r]]

\* One container's Requests added into the node's ResourceList (lines 106-114).
AddRequests(acc, requests) ==
    [r \in DOMAIN acc \cup DOMAIN requests |->
        IF r \notin DOMAIN acc THEN requests[r]
        ELSE IF r \in DOMAIN requests THEN acc[r] + requests[r]
        ELSE acc[r]]

RECURSIVE ContainerLoop(_, _, _)
ContainerLoop(containers, k, acc) ==
    IF k > Len(containers) THEN acc
    ELSE ContainerLoop(containers, k + 1, AddRequests(acc, containers[k].Requests))

\* The pod is skipped when it is not scheduled (line 99).
Unscheduled(pod) == pod.NodeName = ""

RECURSIVE PodLoop(_, _, _)
PodLoop(podList, k, acc) ==
    IF k > Len(podList) THEN acc
    ELSE LET pod == podList[k] IN
         IF Unscheduled(pod) THEN PodLoop(podList, k + 1, acc)
         ELSE LET cur == IF pod.NodeName \in DOMAIN acc THEN acc[pod.NodeName] ELSE EmptyMap
                  sum == ContainerLoop(pod.Containers, 1, cur)
              IN PodLoop(podList, k + 1,
                         [n \in DOMAIN acc \cup {pod.NodeName} |->
                             IF n = pod.NodeName THEN sum ELSE acc[n]])

----------------------------------------------------------------------------
(* Lines 118-129: the allocation index. *)

RECURSIVE ResultLoop(_, _, _)
ResultLoop(results, k, acc) ==
    IF k > Len(results) THEN acc
    ELSE LET ads == results[k]
             sliceIdentifier == SliceIdentifier(ads.Driver, ads.Pool)
             cur == IF sliceIdentifier \in DOMAIN acc THEN acc[sliceIdentifier] ELSE {}
         IN ResultLoop(results, k + 1,
                       [x \in DOMAIN acc \cup {sliceIdentifier} |->
                           IF x = sliceIdentifier THEN cur \cup {ads.Device} ELSE acc[x]])

RECURSIVE ClaimLoop(_, _, _)
ClaimLoop(claims, k, acc) ==
    IF k > Len(claims) THEN acc
    ELSE LET rc == claims[k] IN
         IF rc.Allocation # <<>> /\ Len(rc.Allocation[1].Results) > 0
         THEN ClaimLoop(claims, k + 1, ResultLoop(rc.Allocation[1].Results, 1, acc))
         ELSE ClaimLoop(claims, k + 1, acc)

\* allocatedDevices[sliceIdentifier][name] (line 219): false for a missing key.
IsAllocated(allocated, sliceIdentifier, name) ==
    /\ sliceIdentifier \in DOMAIN allocated
    /\ name \in allocated[sliceIdentifier]

----------------------------------------------------------------------------
(* Lines 133-172: one node of the loop over nodes. *)

\* Roles with the prefix left on the key.
RolesUntrimmed(node) ==
    LET matching == {k \in DOMAIN node.Labels : HasPrefix(k, RolePrefix)}
    IN IF matching = {} THEN {NoRole} ELSE matching

\* The roles the range over node.Labels can end with (lines 134-140): the
\* iteration order of a Go map is not specified, the first match breaks.
Roles(node) ==
    LET matching == {k \in DOMAIN node.Labels : HasPrefix(k, RolePrefix)}
    IN IF matching = {} THEN {NoRole}
       ELSE {TrimPrefix(k, RolePrefix) : k \in matching}

\* Available with the difference floored at zero.
AvailableClamped(node, requested, name) ==
    LET allocatable == Quantity(node.Allocatable, name)
    IN IF node.Name \in DOMAIN requested /\ name \in DOMAIN requested[node.Name]
       THEN IF allocatable < requested[node.Name][name] THEN 0
            ELSE allocatable - requested[node.Name][name]
       ELSE allocatable

\* Lines 143-157: allocatable minus the requests recorded for the node.
Available(node, requested, name) ==
    LET allocatable == Quantity(node.Allocatable, name)
    IN IF node.Name \in DOMAIN requested /\ name \in DOMAIN requested[node.Name]
       THEN allocatable - requested[node.Name][name]
       ELSE allocatable

\* Lines 159-171.
NewNodeInfo(node, role, requested) ==
    [NodeName |-> node.Name,
     NodeRole |-> role,
     NodeCapacity |->
        [TotalCPU |-> Quantity(node.Capacity, ResourceCPU),
         AvailableCPU |-> Available(node, requested, ResourceCPU),
         TotalMemory |-> Quantity(node.Capacity, ResourceMemory),
         AvailableMemory |-> Available(node, requested, ResourceMemory),
         TotalStorage |-> Quantity(node.Capacity, ResourceStorage),
         AvailableStorage |-> Available(node, requested, ResourceStorage)],
     Devices |-> <<>>]

\* nodeMap[node.Name] = &types.NodeInfo{...} (line 159).
PutNode(m, info) ==
    [n \in DOMAIN m \cup {info.NodeName} |-> IF n = info.NodeName THEN info ELSE m[n]]

----------------------------------------------------------------------------
(* Lines 175-231: one ResourceSlice of the loop over resourceSlices. *)

HasProductName(dev) ==
    /\ dev.Basic # <<>>
    /\ "productName" \in DOMAIN dev.Basic[1].Attributes

\* Line 191 dereferences StringValue: a nil pointer there is a run-time panic.
NilDereference(rs, dev) ==
    /\ rs.Driver = NvidiaDriver
    /\ HasProductName(dev)
    /\ dev.Basic[1].Attributes["productName"].StringValue = <<>>

\* ProductName with the attribute used for every driver.
ProductNameAnyDriver(rs, dev) ==
    IF HasProductName(dev)
    THEN dev.Basic[1].Attributes["productName"].StringValue[1]
    ELSE rs.Driver

\* Lines 186-194.
ProductName(rs, dev) ==
    IF rs.Driver = NvidiaDriver /\ HasProductName(dev)
    THEN dev.Basic[1].Attributes["productName"].StringValue[1]
    ELSE rs.Driver

\* Lines 196-201.
Memory(dev) ==
    IF dev.Basic # <<>> /\ "memory" \in DOMAIN dev.Basic[1].Capacity
    THEN dev.Basic[1].Capacity["memory"].Value
    ELSE 0

\* CountDevice with the Memory of the entry set by every device.
CountDeviceLastMemory(deviceMap, productName, memory) ==
    [p \in DOMAIN deviceMap \cup {productName} |->
        IF p # productName THEN deviceMap[p]
        ELSE IF productName \notin DOMAIN deviceMap
             THEN [ProductName |-> productName, TotalCount |-> 1,
                   AvailableCount |-> 1, Memory |-> memory]
             ELSE [deviceMap[p] EXCEPT !.TotalCount = @ + 1,
                                       !.AvailableCount = @ + 1,
                                       !.Memory = memory]]

\* CountDevice with a later device of a name counted as available only.
CountDeviceAvailableOnly(deviceMap, productName, memory) ==
    [p \in DOMAIN deviceMap \cup {productName} |->
        IF p # productName THEN deviceMap[p]
        ELSE IF productName \notin DOMAIN deviceMap
             THEN [ProductName |-> productName, TotalCount |-> 1,
                   AvailableCount |-> 1, Memory |-> memory]
             ELSE [deviceMap[p] EXCEPT !.AvailableCount = @ + 1]]

\* Lines 204-216: a new entry, or both counts of the existing entry plus one.
CountDevice(deviceMap, productName, memory) ==
    [p \in DOMAIN deviceMap \cup {productName} |->
        IF p # productName THEN deviceMap[p]
        ELSE IF productName \notin DOMAIN deviceMap
             THEN [ProductName |-> productName, TotalCount |-> 1,
                   AvailableCount |-> 1, Memory |-> memory]
             ELSE [deviceMap[p] EXCEPT !.TotalCount = @ + 1,
                                       !.AvailableCount = @ + 1]]

\* MarkAllocated with TotalCount decremented in place of AvailableCount.
MarkAllocatedTotal(deviceMap, productName) ==
    [deviceMap EXCEPT ![productName].TotalCount = IF @ > 0 THEN @ - 1 ELSE @]

\* MarkAllocated with the floor test off by one.
MarkAllocatedAboveOne(deviceMap, productName) ==
    [deviceMap EXCEPT ![productName].AvailableCount = IF @ > 1 THEN @ - 1 ELSE @]

\* Lines 220-224: the entry's AvailableCount minus one, not below zero.
MarkAllocated(deviceMap, productName) ==
    [deviceMap EXCEPT ![productName].AvailableCount = IF @ > 0 THEN @ - 1 ELSE @]

RECURSIVE DeviceLoop(_, _, _, _)
DeviceLoop(rs, allocated, k, deviceMap) ==
    IF k > Len(rs.Devices) THEN deviceMap
    ELSE LET dev == rs.Devices[k]
             productName == ProductName(rs, dev)
             counted == CountDevice(deviceMap, productName, Memory(dev))
             sliceIdentifier == SliceIdentifier(rs.Driver, rs.Pool)
         IN DeviceLoop(rs, allocated, k + 1,
                       IF IsAllocated(allocated, sliceIdentifier, dev.Name)
                       THEN MarkAllocated(counted, productName)
                       ELSE counted)

\* Lines 228-230: the entries of deviceMap appended in the order of the range.
AppendDevices(devices, deviceMap, order) ==
    devices \o [k \in 1..Len(order) |-> deviceMap[order[k]]]

\* Lines 176-179: the slice is processed only when its node is in nodeMap.
KnownNode(m, rs) == rs.NodeName \in DOMAIN m

\* PopulateDevices with an entry created for a slice whose node is not in the map.
PopulateDevicesSynthetic(m, rs, allocated, order) ==
    IF ~KnownNode(m, rs)
    THEN [n \in DOMAIN m \cup {rs.NodeName} |->
             IF n = rs.NodeName
             THEN [NodeName |-> rs.NodeName, NodeRole |-> NoRole,
                   NodeCapacity |->
                      [TotalCPU |-> 0, AvailableCPU |-> 0, TotalMemory |-> 0,
                       AvailableMemory |-> 0, TotalStorage |-> 0, AvailableStorage |-> 0],
                   Devices |-> <<>>]
             ELSE m[n]]
    ELSE [m EXCEPT ![rs.NodeName].Devices =
              AppendDevices(@, DeviceLoop(rs, allocated, 1, EmptyMap), order)]

\* The whole body of the loop for a slice that does not panic.
PopulateDevices(m, rs, allocated, order) ==
    IF ~KnownNode(m, rs) THEN m
    ELSE [m EXCEPT ![rs.NodeName].Devices =
              AppendDevices(@, DeviceLoop(rs, allocated, 1, EmptyMap), order)]

\* The slice's device loop reaches line 191 with a nil StringValue.
Panics(m, rs) ==
    /\ KnownNode(m, rs)
    /\ \E k \in 1..Len(rs.Devices) : NilDereference(rs, rs.Devices[k])

\* CollectList without the nodes that have no device entry.
CollectListWithDevices(m, order) ==
    SelectSeq([k \in 1..Len(order) |-> m[order[k]]], LAMBDA info : info.Devices # <<>>)

\* Lines 233-236: the values of nodeMap in the order of the range.
CollectList(m, order) == [k \in 1..Len(order) |-> m[order[k]]]

----------------------------------------------------------------------------
(* The objects the explored clusters are made of. *)

StringAttribute(s) == [StringValue |-> <<s>>]
NilAttribute == [StringValue |-> <<>>]
Basic(attributes, capacity) == <<[Attributes |-> attributes, Capacity |-> capacity]>>

\* A device as the test builds it: a productName attribute and a memory capacity.
Gpu(name, product, memory) ==
    [Name |-> name,
     Basic |-> Basic("productName" :> StringAttribute(product),
                     "memory" :> [Value |-> memory])]
\* A device without the basic section.
Bare(name) == [Name |-> name, Basic |-> <<>>]
\* A device whose productName attribute holds no string value.
Unnamed(name) ==
    [Name |-> name, Basic |-> Basic("productName" :> NilAttribute, EmptyMap)]
\* A device with a productName attribute and no capacity.
Labelled(name, product) ==
    [Name |-> name, Basic |-> Basic("productName" :> StringAttribute(product), EmptyMap)]

Slice(nodeName, driver, pool, devices) ==
    [NodeName |-> nodeName, Driver |-> driver, Pool |-> pool, Devices |-> devices]

Result(driver, pool, device) == [Driver |-> driver, Pool |-> pool, Device |-> device]
Allocated(results) == [Allocation |-> <<[Results |-> results]>>]
Pending == [Allocation |-> <<>>]

Resources(cpu, memory, storage) ==
    (ResourceCPU :> cpu) @@ (ResourceMemory :> memory) @@ (ResourceStorage :> storage)

Container(requests) == [Requests |-> requests]

Node1 ==
    [Name |-> "node-1",
     Labels |-> ("node-role.kubernetes.io/worker" :> ""),
     Capacity |-> Resources(4, 16, 100),
     Allocatable |-> Resources(3, 14, 90)]
\* A second object with the name node-1, two role labels and another label.
Node1Again ==
    [Name |-> "node-1",
     Labels |-> ("node-role.kubernetes.io/master" :> "")
                @@ ("node-role.kubernetes.io/worker" :> "")
                @@ ("kubernetes.io/os" :> "linux"),
     Capacity |-> Resources(8, 32, 100),
     Allocatable |-> Resources(7, 30, 90)]
\* A node without labels that reports only cpu.
Node2 ==
    [Name |-> "node-2",
     Labels |-> EmptyMap,
     Capacity |-> (ResourceCPU :> 4),
     Allocatable |-> (ResourceCPU :> 3)]
\* node-2 as the test builds it.
Node2Full ==
    [Name |-> "node-2",
     Labels |-> ("node-role.kubernetes.io/worker" :> ""),
     Capacity |-> Resources(4, 16, 100),
     Allocatable |-> Resources(3, 14, 90)]

PodOne ==
    [NodeName |-> "node-1",
     Containers |-> <<Container((ResourceCPU :> 1) @@ (ResourceMemory :> 2))>>]
PodTwoContainers ==
    [NodeName |-> "node-1",
     Containers |-> <<Container((ResourceCPU :> 2)),
                      Container((ResourceCPU :> 1) @@ (ResourceStorage :> 95))>>]
PodUnscheduled ==
    [NodeName |-> "",
     Containers |-> <<Container((ResourceCPU :> 1) @@ (ResourceMemory :> 1))>>]
PodOnNode2 ==
    [NodeName |-> "node-2",
     Containers |-> <<Container((ResourceCPU :> 1) @@ (ResourceMemory :> 1))>>]

Product == "NVIDIA GeForce RTX 5090"

SliceTest ==
    Slice("node-1", NvidiaDriver, "pool-a",
          <<Gpu("gpu-0", Product, 8), Gpu("gpu-1", Product, 8)>>)
\* The same driver, pool and device names on node-2, with two memory sizes.
SliceTwin ==
    Slice("node-2", NvidiaDriver, "pool-a",
          <<Gpu("gpu-0", Product, 8), Gpu("gpu-1", Product, 16)>>)
\* A second slice of pool-a on node-1.
SliceMore ==
    Slice("node-1", NvidiaDriver, "pool-a", <<Gpu("gpu-2", Product, 8)>>)
\* A driver and a pool whose names hold the separator; one name listed twice.
SliceDash == Slice("node-1", "a", "b-c", <<Bare("d0"), Bare("d0")>>)
\* Another driver with a productName attribute.
SliceOther == Slice("node-2", "a-b", "c", <<Labelled("d0", "Other")>>)
\* A slice of a node that is not listed.
SliceOrphan ==
    Slice("node-9", NvidiaDriver, "pool-a",
          <<Gpu("gpu-0", Product, 8), Unnamed("gpu-1")>>)
\* A slice whose device has a productName attribute without a string value.
SliceNil == Slice("node-2", NvidiaDriver, "pool-b", <<Unnamed("gpu-0")>>)

\* A slice whose first device declares no memory and whose last has no basic section.
SliceLate ==
    Slice("node-2", NvidiaDriver, "pool-c",
          <<Labelled("gpu-0", Product), Gpu("gpu-1", Product, 8), Bare("gpu-2")>>)

ClaimTest == Allocated(<<Result(NvidiaDriver, "pool-a", "gpu-0")>>)
\* A result for driver a-b and pool c, and one for a device no slice lists.
ClaimDash ==
    Allocated(<<Result("a-b", "c", "d0"), Result(NvidiaDriver, "pool-a", "gpu-7")>>)
ClaimTwo ==
    Allocated(<<Result(NvidiaDriver, "pool-a", "gpu-1"),
                Result(NvidiaDriver, "pool-b", "gpu-0")>>)
ClaimEmpty == Allocated(<<>>)

NodeUniverse == {Node1, Node1Again, Node2}
PodUniverse == {PodOne, PodTwoContainers, PodUnscheduled, PodOnNode2}
SliceUniverse ==
    {SliceTest, SliceTwin, SliceMore, SliceDash, SliceOther, SliceOrphan, SliceNil,
     SliceLate}
ClaimUniverse == {ClaimTest, ClaimDash, ClaimTwo, Pending, ClaimEmpty}

----------------------------------------------------------------------------
(* The state machine: one call of GetK8sResources against a cluster. *)

InitWith(nodeLists, sliceLists, claimLists, podLists) ==
    /\ cluster \in [nodes : nodeLists, slices : sliceLists,
                    claims : claimLists, pods : podLists]
    /\ pc = "getNodes"
    /\ nodes = <<>>
    /\ resourceSlices = <<>>
    /\ resourceClaims = <<>>
    /\ pods = <<>>
    /\ requestedResources = EmptyMap
    /\ allocatedDevices = EmptyMap
    /\ nodeMap = EmptyMap
    /\ ni = 1
    /\ si = 1
    /\ nodeInfoList = <<>>
    /\ err = NoError
    /\ calls = <<>>
    /\ previous = <<>>

\* Clusters that vary in their nodes and pods.
Init ==
    InitWith(SeqsUpTo(NodeUniverse, MaxNodes),
             {<<>>, <<SliceTest>>, <<SliceNil, SliceTest>>},
             {<<ClaimTest>>},
             SeqsUpTo(PodUniverse, MaxPods))

\* Clusters that vary in their slices and claims.
InitDevices ==
    InitWith({<<Node1, Node2Full>>},
             SeqsUpTo(SliceUniverse, MaxSlices),
             SeqsUpTo(ClaimUniverse, MaxClaims),
             {<<PodOne>>})

\* Fail that returns nil for the error as well.
FailSwallowed(message) ==
    /\ pc' = "returned"
    /\ err' = NoError
    /\ nodeInfoList' = <<>>

\* A list call fails: GetK8sResources returns nil and the error (lines 77-94).
Fail(message) ==
    /\ pc' = "returned"
    /\ err' = message
    /\ nodeInfoList' = <<>>

\* The errors a List call of the client can end with.
Causes == {"connection refused", "forbidden"}

\* Lines 62, 46, 54 and 70: fmt.Errorf("failed to list ...: %w", err).
getNodesError(cause) == "failed to list nodes: " \o cause
getResourceSlicesError(cause) == "failed to list ResourceSlices: " \o cause
\* getResourceClaimsError with the message of getResourceSlices.
getResourceClaimsErrorCopied(cause) == "failed to list ResourceSlices: " \o cause
getResourceClaimsError(cause) == "failed to list ResourceClaims: " \o cause
getPodsError(cause) == "failed to list pods: " \o cause

\* The List call of a collection, as the client saw it end.
Listed(op, cause) == calls' = Append(calls, [op |-> op, error |-> cause])

GetNodes ==
    /\ pc = "getNodes"
    /\ \/ /\ nodes' = cluster.nodes
          /\ Listed("nodes", NoError)
          /\ pc' = "getResourceSlices"
          /\ UNCHANGED <<nodeInfoList, err>>
       \/ \E cause \in Causes :
             /\ Fail(getNodesError(cause))
             /\ Listed("nodes", cause)
             /\ UNCHANGED nodes
    /\ UNCHANGED <<cluster, previous, resourceSlices, resourceClaims, pods,
                   requestedResources, allocatedDevices, nodeMap, ni, si>>

GetResourceSlices ==
    /\ pc = "getResourceSlices"
    /\ \/ /\ resourceSlices' = cluster.slices
          /\ Listed("resourceslices", NoError)
          /\ pc' = "getResourceClaims"
          /\ UNCHANGED <<nodeInfoList, err>>
       \/ \E cause \in Causes :
             /\ Fail(getResourceSlicesError(cause))
             /\ Listed("resourceslices", cause)
             /\ UNCHANGED resourceSlices
    /\ UNCHANGED <<cluster, previous, nodes, resourceClaims, pods,
                   requestedResources, allocatedDevices, nodeMap, ni, si>>

GetResourceClaims ==
    /\ pc = "getResourceClaims"
    /\ \/ /\ resourceClaims' = cluster.claims
          /\ Listed("resourceclaims", NoError)
          /\ pc' = "getPods"
          /\ UNCHANGED <<nodeInfoList, err>>
       \/ \E cause \in Causes :
             /\ Fail(getResourceClaimsError(cause))
             /\ Listed("resourceclaims", cause)
             /\ UNCHANGED resourceClaims
    /\ UNCHANGED <<cluster, previous, nodes, resourceSlices, pods,
                   requestedResources, allocatedDevices, nodeMap, ni, si>>

\* GetPods with a failed List tried once more.
GetPodsRetry ==
    /\ pc = "getPods"
    /\ \/ /\ pods' = cluster.pods
          /\ Listed("pods", NoError)
          /\ pc' = "requested"
          /\ UNCHANGED <<nodeInfoList, err>>
       \/ \E cause \in Causes :
             /\ Len(calls) < 5
             /\ Listed("pods", cause)
             /\ UNCHANGED <<pc, pods, nodeInfoList, err>>
    /\ UNCHANGED <<cluster, previous, nodes, resourceSlices, resourceClaims,
                   requestedResources, allocatedDevices, nodeMap, ni, si>>

GetPods ==
    /\ pc = "getPods"
    /\ \/ /\ pods' = cluster.pods
          /\ Listed("pods", NoError)
          /\ pc' = "requested"
          /\ UNCHANGED <<nodeInfoList, err>>
       \/ \E cause \in Causes :
             /\ Fail(getPodsError(cause))
             /\ Listed("pods", cause)
             /\ UNCHANGED pods
    /\ UNCHANGED <<cluster, previous, nodes, resourceSlices, resourceClaims,
                   requestedResources, allocatedDevices, nodeMap, ni, si>>

\* Lines 96-116.
CalcRequested ==
    /\ pc = "requested"
    /\ requestedResources' = PodLoop(pods, 1, EmptyMap)
    /\ pc' = "allocated"
    /\ UNCHANGED <<cluster, previous, calls, nodes, resourceSlices, resourceClaims, pods,
                   allocatedDevices, nodeMap, ni, si, nodeInfoList, err>>

\* Lines 118-129.
IndexClaims ==
    /\ pc = "allocated"
    /\ allocatedDevices' = ClaimLoop(resourceClaims, 1, EmptyMap)
    /\ pc' = "build"
    /\ UNCHANGED <<cluster, previous, calls, nodes, resourceSlices, resourceClaims, pods,
                   requestedResources, nodeMap, ni, si, nodeInfoList, err>>

\* Lines 133-172, one iteration.
NodeStep ==
    /\ pc = "build"
    /\ ni <= Len(nodes)
    /\ \E role \in Roles(nodes[ni]) :
          nodeMap' = PutNode(nodeMap, NewNodeInfo(nodes[ni], role, requestedResources))
    /\ ni' = ni + 1
    /\ UNCHANGED <<cluster, previous, calls, pc, nodes, resourceSlices, resourceClaims, pods,
                   requestedResources, allocatedDevices, si, nodeInfoList, err>>

\* Lines 175-231, one iteration that completes.
SliceStep ==
    /\ pc = "build"
    /\ ni > Len(nodes)
    /\ si <= Len(resourceSlices)
    /\ LET rs == resourceSlices[si] IN
          /\ ~Panics(nodeMap, rs)
          /\ \E order \in (IF KnownNode(nodeMap, rs)
                           THEN Orders(DOMAIN DeviceLoop(rs, allocatedDevices, 1, EmptyMap))
                           ELSE {<<>>}) :
                nodeMap' = PopulateDevices(nodeMap, rs, allocatedDevices, order)
    /\ si' = si + 1
    /\ UNCHANGED <<cluster, previous, calls, pc, nodes, resourceSlices, resourceClaims, pods,
                   requestedResources, allocatedDevices, ni, nodeInfoList, err>>

\* Lines 175-231, an iteration that ends in the nil dereference of line 191.
SlicePanic ==
    /\ pc = "build"
    /\ ni > Len(nodes)
    /\ si <= Len(resourceSlices)
    /\ Panics(nodeMap, resourceSlices[si])
    /\ pc' = "panic"
    /\ UNCHANGED <<cluster, previous, calls, nodes, resourceSlices, resourceClaims, pods,
                   requestedResources, allocatedDevices, nodeMap, ni, si,
                   nodeInfoList, err>>

\* Lines 233-238.
Return ==
    /\ pc = "build"
    /\ ni > Len(nodes)
    /\ si > Len(resourceSlices)
    /\ \E order \in Orders(DOMAIN nodeMap) :
          nodeInfoList' = CollectList(nodeMap, order)
    /\ pc' = "returned"
    /\ UNCHANGED <<cluster, previous, calls, nodes, resourceSlices, resourceClaims, pods,
                   requestedResources, allocatedDevices, nodeMap, ni, si, err>>

Next ==
    \/ GetNodes
    \/ GetResourceSlices
    \/ GetResourceClaims
    \/ GetPods
    \/ CalcRequested
    \/ IndexClaims
    \/ NodeStep
    \/ SliceStep
    \/ SlicePanic
    \/ Return

Spec == Init /\ [][Next]_vars
SpecDevices == InitDevices /\ [][Next]_vars

----------------------------------------------------------------------------
(* A second call of GetK8sResources against the same objects. *)

\* The lists that hold the elements of s in some order.
Permuted(s) == {[k \in DOMAIN s |-> s[o[k]]] : o \in Orders(DOMAIN s)}

\* Clusters that vary in their nodes, for two calls in a row.
InitRepeat ==
    InitWith(SeqsUpTo(NodeUniverse, MaxNodes),
             {<<>>, <<SliceTest, SliceTwin>>, <<SliceNil, SliceTest>>},
             {<<ClaimTest, ClaimTwo>>},
             {<<PodOne, PodOnNode2>>})

\* GetK8sResources is entered once more after it returned a list: its locals
\* are fresh, and the four List calls may answer in another order.
CallAgain ==
    /\ pc = "returned"
    /\ err = NoError
    /\ previous = <<>>
    /\ previous' = <<[cluster |-> cluster, nodeInfoList |-> nodeInfoList]>>
    /\ \E ns \in Permuted(cluster.nodes), ss \in Permuted(cluster.slices),
          cs \in Permuted(cluster.claims), ps \in Permuted(cluster.pods) :
          cluster' = [nodes |-> ns, slices |-> ss, claims |-> cs, pods |-> ps]
    /\ pc' = "getNodes"
    /\ nodes' = <<>>
    /\ resourceSlices' = <<>>
    /\ resourceClaims' = <<>>
    /\ pods' = <<>>
    /\ requestedResources' = EmptyMap
    /\ allocatedDevices' = EmptyMap
    /\ nodeMap' = EmptyMap
    /\ ni' = 1
    /\ si' = 1
    /\ nodeInfoList' = <<>>
    /\ calls' = <<>>
    /\ UNCHANGED err

NextRepeat ==
    \/ Next
    \/ CallAgain

SpecRepeat == InitRepeat /\ [][NextRepeat]_vars

----------------------------------------------------------------------------
(* Vocabulary of the properties. *)

\* GetK8sResources has returned a list and no error.
Done == pc = "returned" /\ err = NoError

NodeNames == {cluster.nodes[k].Name : k \in DOMAIN cluster.nodes}

\* The number of positions of the sequence s that hold x.
Count(s, x) == Cardinality({k \in DOMAIN s : s[k] = x})

SameBag(s, t) ==
    \A x \in {s[k] : k \in DOMAIN s} \cup {t[k] : k \in DOMAIN t} :
        Count(s, x) = Count(t, x)

RECURSIVE SumInts(_)
SumInts(s) == IF s = <<>> THEN 0 ELSE Head(s) + SumInts(Tail(s))

\* The slices of the cluster that name the node n.
SlicesOf(n) == {k \in DOMAIN cluster.slices : cluster.slices[k].NodeName = n}

\* The device instances the slices of node n list: <<slice, position>>.
Instances(n) ==
    UNION {{<<k, d>> : d \in DOMAIN cluster.slices[k].Devices} : k \in SlicesOf(n)}

\* The allocation results of the cluster's claims: <<claim, position>>.
AllResults ==
    UNION {{<<c, r>> : r \in DOMAIN cluster.claims[c].Allocation[1].Results} :
              c \in {c \in DOMAIN cluster.claims : cluster.claims[c].Allocation # <<>>}}

ResultAt(cr) == cluster.claims[cr[1]].Allocation[1].Results[cr[2]]

----------------------------------------------------------------------------
\* C1: when all four fetches succeed, the returned list holds exactly one
\* NodeInfo for every distinct name of the fetched node list and none for
\* any other name.
C1_OneNodeInfoPerName ==
    Done =>
        /\ \A name \in NodeNames :
              Cardinality({j \in DOMAIN nodeInfoList :
                              nodeInfoList[j].NodeName = name}) = 1
        /\ \A j \in DOMAIN nodeInfoList : nodeInfoList[j].NodeName \in NodeNames

\* Two nodes are listed, only node-1 has a slice, and the list returned has
\* one NodeInfo for each: node-1 with a device entry, node-2 with none.
C1_Witness ==
    /\ Done
    /\ cluster.nodes = <<Node1, Node2>>
    /\ cluster.slices = <<SliceTest>>
    /\ Len(nodeInfoList) = 2
    /\ \E j \in DOMAIN nodeInfoList :
          nodeInfoList[j].NodeName = "node-2" /\ nodeInfoList[j].Devices = <<>>
    /\ \E j \in DOMAIN nodeInfoList :
          nodeInfoList[j].NodeName = "node-1" /\ nodeInfoList[j].Devices # <<>>

\* C2: every returned device entry has 0 <= AvailableCount <= TotalCount.
C2_AvailableWithinTotal ==
    Done =>
        \A j \in DOMAIN nodeInfoList :
            \A e \in DOMAIN nodeInfoList[j].Devices :
                LET dev == nodeInfoList[j].Devices[e]
                IN 0 <= dev.AvailableCount /\ dev.AvailableCount <= dev.TotalCount

\* A claim names a device no slice lists, a slice of a listed node lists one
\* name twice, and an entry is returned with every instance allocated.
C2_Witness ==
    /\ Done
    /\ \E cr \in AllResults :
          \A k \in DOMAIN cluster.slices :
              \A d \in DOMAIN cluster.slices[k].Devices :
                  cluster.slices[k].Devices[d].Name # ResultAt(cr).Device
    /\ \E k \in DOMAIN cluster.slices :
          /\ cluster.slices[k].NodeName \in NodeNames
          /\ \E a, b \in DOMAIN cluster.slices[k].Devices :
                a # b /\ cluster.slices[k].Devices[a].Name = cluster.slices[k].Devices[b].Name
    /\ \E j \in DOMAIN nodeInfoList :
          \E e \in DOMAIN nodeInfoList[j].Devices :
              /\ nodeInfoList[j].Devices[e].TotalCount = 2
              /\ nodeInfoList[j].Devices[e].AvailableCount = 0

\* C3: the Devices of a returned NodeInfo hold one entry per distinct
\* (display name, memory) pair observed on the node across all its slices:
\* no two entries share the pair, and every observed pair has an entry.
C3_OneEntryPerDisplayKey ==
    Done =>
        \A j \in DOMAIN nodeInfoList :
            LET info == nodeInfoList[j] IN
            /\ \A a, b \in DOMAIN info.Devices :
                  (/\ info.Devices[a].ProductName = info.Devices[b].ProductName
                   /\ info.Devices[a].Memory = info.Devices[b].Memory) => a = b
            /\ \A kd \in Instances(info.NodeName) :
                  LET rs == cluster.slices[kd[1]]
                      dev == rs.Devices[kd[2]]
                  IN \E e \in DOMAIN info.Devices :
                        /\ info.Devices[e].ProductName = ProductName(rs, dev)
                        /\ info.Devices[e].Memory = Memory(dev)

\* C4: the TotalCount of an entry is the number of device instances in all
\* slices of the node whose display name and memory are the entry's.
C4_TotalCountsDisplayKey ==
    Done =>
        \A j \in DOMAIN nodeInfoList :
            LET info == nodeInfoList[j] IN
            \A e \in DOMAIN info.Devices :
                info.Devices[e].TotalCount =
                    Cardinality({kd \in Instances(info.NodeName) :
                        LET rs == cluster.slices[kd[1]]
                        IN /\ ProductName(rs, rs.Devices[kd[2]]) = info.Devices[e].ProductName
                           /\ Memory(rs.Devices[kd[2]]) = info.Devices[e].Memory})

\* The entries the code keeps for slice k: one per display name of the slice,
\* with the instances of that name counted and those in the allocation index
\* under the slice's key subtracted.
SliceProducts(k) ==
    {ProductName(cluster.slices[k], cluster.slices[k].Devices[d]) :
        d \in DOMAIN cluster.slices[k].Devices}

InIndex(rs, name) ==
    /\ SliceIdentifier(rs.Driver, rs.Pool) \in DOMAIN allocatedDevices
    /\ name \in allocatedDevices[SliceIdentifier(rs.Driver, rs.Pool)]

ExpectedCounts(k, p) ==
    LET rs == cluster.slices[k]
        counted == {d \in DOMAIN rs.Devices : ProductName(rs, rs.Devices[d]) = p}
    IN [ProductName |-> p,
        TotalCount |-> Cardinality(counted),
        AvailableCount |-> Cardinality(counted)
            - Cardinality({d \in counted : InIndex(rs, rs.Devices[d].Name)})]

Counts(dev) ==
    [ProductName |-> dev.ProductName, TotalCount |-> dev.TotalCount,
     AvailableCount |-> dev.AvailableCount]

\* C5: the AvailableCount of every returned entry is its TotalCount minus the
\* number of the device instances counted in the entry whose name is in the
\* allocation index under the key of their slice's driver and pool.
C5_AvailableIsTotalMinusAllocated ==
    Done =>
        \A j \in DOMAIN nodeInfoList :
            LET info == nodeInfoList[j]
                entries == UNION {{<<k, p>> : p \in SliceProducts(k)} :
                                     k \in SlicesOf(info.NodeName)}
                observed == {Counts(info.Devices[e]) : e \in DOMAIN info.Devices}
                expected == {ExpectedCounts(kp[1], kp[2]) : kp \in entries}
            IN \A t \in observed \cup expected :
                  Cardinality({e \in DOMAIN info.Devices : Counts(info.Devices[e]) = t})
                  = Cardinality({kp \in entries : ExpectedCounts(kp[1], kp[2]) = t})

\* The scenario of the test: gpu-0 and gpu-1 in pool-a on node-1, one claim
\* for gpu-0, and the entry returned with TotalCount 2 and AvailableCount 1.
C5_Witness ==
    /\ Done
    /\ cluster.slices = <<SliceTest>>
    /\ cluster.claims = <<ClaimTest>>
    /\ \E j \in DOMAIN nodeInfoList :
          /\ nodeInfoList[j].NodeName = "node-1"
          /\ nodeInfoList[j].Devices =
                <<[ProductName |-> Product, TotalCount |-> 2,
                   AvailableCount |-> 1, Memory |-> 8]>>

\* The device instances of node n that some allocation result names with
\* the driver, the pool and the device name of the instance.
Claimed(n) ==
    {kd \in Instances(n) :
        LET rs == cluster.slices[kd[1]] IN
        \E cr \in AllResults :
            /\ ResultAt(cr).Driver = rs.Driver
            /\ ResultAt(cr).Pool = rs.Pool
            /\ ResultAt(cr).Device = rs.Devices[kd[2]].Name}

\* The number of instances the entries of a NodeInfo count as allocated.
AllocatedCount(info) ==
    SumInts([e \in DOMAIN info.Devices |->
                info.Devices[e].TotalCount - info.Devices[e].AvailableCount])

\* C6: a device is counted as allocated only if an allocation result names
\* its slice's driver, its slice's pool and its name, whatever characters
\* the driver and pool names hold.
C6_AllocatedOnlyBySameDriverAndPool ==
    Done =>
        \A j \in DOMAIN nodeInfoList :
            AllocatedCount(nodeInfoList[j])
                <= Cardinality(Claimed(nodeInfoList[j].NodeName))

DeviceNames(rs) == {rs.Devices[d].Name : d \in DOMAIN rs.Devices}

InfoOf(n) == CHOOSE info \in {nodeInfoList[j] : j \in DOMAIN nodeInfoList} : info.NodeName = n

Reduced(n) ==
    \E e \in DOMAIN InfoOf(n).Devices :
        InfoOf(n).Devices[e].AvailableCount < InfoOf(n).Devices[e].TotalCount

\* C7: with two slices of two different listed nodes that have the same
\* driver, pool name and device names, and claims that allocate one device,
\* at most one of the two nodes has its AvailableCount reduced.
C7_NoCrossNodeLeak ==
    Done =>
        \A a, b \in DOMAIN cluster.slices :
            LET ra == cluster.slices[a]
                rb == cluster.slices[b]
            IN (/\ ra.NodeName # rb.NodeName
                /\ ra.NodeName \in NodeNames
                /\ rb.NodeName \in NodeNames
                /\ ra.Driver = rb.Driver
                /\ ra.Pool = rb.Pool
                /\ DeviceNames(ra) = DeviceNames(rb)
                /\ Cardinality(AllResults) = 1)
               => ~(Reduced(ra.NodeName) /\ Reduced(rb.NodeName))

\* The node object whose NodeInfo is kept for a name: the last one listed.
LastNode(name) ==
    cluster.nodes[CHOOSE k \in DOMAIN cluster.nodes :
                     /\ cluster.nodes[k].Name = name
                     /\ \A l \in DOMAIN cluster.nodes :
                           cluster.nodes[l].Name = name => l <= k]

\* The requests for resource r over the containers of a pod.
PodRequest(pod, r) ==
    SumInts([c \in DOMAIN pod.Containers |-> Quantity(pod.Containers[c].Requests, r)])

\* The requests for resource r over the pods whose nodeName is n.
NodeDemand(n, r) ==
    SumInts([k \in DOMAIN cluster.pods |->
                IF cluster.pods[k].NodeName = n THEN PodRequest(cluster.pods[k], r) ELSE 0])

\* C8: for CPU, memory and storage the Available value of a returned NodeInfo
\* is the node's allocatable value (zero when absent) minus the sum of the
\* requests of the pods scheduled on the node, without clamping.
C8_AvailableIsAllocatableMinusDemand ==
    Done =>
        \A j \in DOMAIN nodeInfoList :
            LET info == nodeInfoList[j]
                node == LastNode(info.NodeName)
                left(r) == Quantity(node.Allocatable, r) - NodeDemand(node.Name, r)
            IN /\ info.NodeCapacity.AvailableCPU = left(ResourceCPU)
               /\ info.NodeCapacity.AvailableMemory = left(ResourceMemory)
               /\ info.NodeCapacity.AvailableStorage = left(ResourceStorage)

\* node-1 has no pod and keeps its allocatable CPU; node-2 reports no memory
\* and has a pod that requests memory, so its available memory is negative.
C8_Witness ==
    /\ Done
    /\ cluster.nodes = <<Node1, Node2>>
    /\ cluster.pods = <<PodOnNode2>>
    /\ \E j \in DOMAIN nodeInfoList :
          /\ nodeInfoList[j].NodeName = "node-1"
          /\ nodeInfoList[j].NodeCapacity.AvailableCPU = 3
    /\ \E j \in DOMAIN nodeInfoList :
          /\ nodeInfoList[j].NodeName = "node-2"
          /\ nodeInfoList[j].NodeCapacity.AvailableMemory = -1
          /\ nodeInfoList[j].NodeCapacity.AvailableCPU = 2

\* The demand table has been built.
Aggregated == pc \in {"allocated", "build", "panic"} \/ Done

PodNodeNames == {cluster.pods[k].NodeName : k \in DOMAIN cluster.pods}

\* C9: the demand recorded for node n and resource r is the sum of the
\* requests for r over every container of every pod whose nodeName is n; a
\* pod with an empty nodeName is recorded for no node.
C9_DemandIsSumOverScheduledPods ==
    Aggregated =>
        /\ "" \notin DOMAIN requestedResources
        /\ DOMAIN requestedResources = PodNodeNames \ {""}
        /\ \A n \in (NodeNames \cup PodNodeNames) \ {""} :
              \A r \in {ResourceCPU, ResourceMemory, ResourceStorage} :
                  (IF n \in DOMAIN requestedResources
                   THEN Quantity(requestedResources[n], r) ELSE 0) = NodeDemand(n, r)

\* A pod with two containers that both request CPU, next to an unscheduled pod.
C9_Witness ==
    /\ pc = "build"
    /\ cluster.pods = <<PodUnscheduled, PodTwoContainers>>
    /\ requestedResources = ("node-1" :> ((ResourceCPU :> 3) @@ (ResourceStorage :> 95)))

----------------------------------------------------------------------------
\* The slices of the cluster without those that name no listed node.
WithoutOrphans(slices) == SelectSeq(slices, LAMBDA rs : rs.NodeName \in NodeNames)

\* The node records as the loop over nodes left them.
Skeleton(m) == [n \in DOMAIN m \cap NodeNames |-> [m[n] EXCEPT !.Devices = <<>>]]

\* The loop over slices run on a list of slices, none of which panics.
RECURSIVE SliceLoop(_, _, _, _)
SliceLoop(m, slices, k, allocated) ==
    IF k > Len(slices) THEN m
    ELSE LET order == CHOOSE o \in Orders(DOMAIN DeviceLoop(slices[k], allocated, 1, EmptyMap)) : TRUE
         IN SliceLoop(PopulateDevices(m, slices[k], allocated, order), slices, k + 1, allocated)

\* C10: a slice whose nodeName matches no fetched node changes nothing: the
\* returned list is the one the input without that slice gives (device
\* entries compared as a multiset), and no NodeInfo carries its nodeName.
C10_OrphanSliceChangesNothing ==
    Done =>
        LET ref == SliceLoop(Skeleton(nodeMap), WithoutOrphans(cluster.slices),
                             1, allocatedDevices)
        IN /\ \A j \in DOMAIN nodeInfoList : nodeInfoList[j].NodeName \in DOMAIN ref
           /\ \A n \in DOMAIN ref : \E j \in DOMAIN nodeInfoList : nodeInfoList[j].NodeName = n
           /\ \A j \in DOMAIN nodeInfoList :
                 LET info == nodeInfoList[j] IN
                 /\ info.NodeRole = ref[info.NodeName].NodeRole
                 /\ info.NodeCapacity = ref[info.NodeName].NodeCapacity
                 /\ SameBag(info.Devices, ref[info.NodeName].Devices)

\* A slice of an unlisted node that lists devices, next to a slice of a
\* listed node, and a list returned with the devices of the latter.
C10_Witness ==
    /\ Done
    /\ \E a, b \in DOMAIN cluster.slices :
          /\ cluster.slices[a].NodeName \notin NodeNames
          /\ cluster.slices[a].Devices # <<>>
          /\ cluster.slices[b].NodeName \in NodeNames
          /\ InfoOf(cluster.slices[b].NodeName).Devices # <<>>

----------------------------------------------------------------------------
\* The List calls that ended with an error.
FailedCalls == {k \in DOMAIN calls : calls[k].error # NoError}

\* All four List calls were made and none ended with an error.
AllListed == Len(calls) = 4 /\ FailedCalls = {}

\* C11: if any of the four list operations fails, GetK8sResources returns a
\* failure and no list; a non-empty list is returned only when all four list
\* operations succeeded.
C11_FailureReturnsNoList ==
    /\ FailedCalls # {} => (pc = "returned" /\ err # NoError /\ nodeInfoList = <<>>)
    /\ nodeInfoList # <<>> => AllListed

\* The nodes and the slices were listed, the list of the claims failed, and
\* the call returned the error with no list although nodes exist.
C11_Witness ==
    /\ pc = "returned"
    /\ err # NoError
    /\ nodeInfoList = <<>>
    /\ Len(calls) = 3
    /\ FailedCalls = {3}
    /\ nodes = <<Node1, Node2>>
    /\ resourceSlices = <<SliceTest>>

\* C12: whenever all four list operations succeed, GetK8sResources completes
\* and returns a list without a crash, for every input, a gpu.nvidia.com
\* device whose productName attribute carries no string value included.
C12_CompletesWithoutCrash == AllListed => pc # "panic"

\* The device entries of a NodeInfo as a multiset.
DeviceBag(devices) ==
    [x \in {devices[k] : k \in DOMAIN devices} |-> Count(devices, x)]

\* A returned list as an unordered collection of node records.
Unordered(list) ==
    {[list[j] EXCEPT !.Devices = DeviceBag(@)] : j \in DOMAIN list}

SameResult(a, b) == Len(a) = Len(b) /\ Unordered(a) = Unordered(b)

\* A second call has returned a list.
DoneAgain == Done /\ previous # <<>>

\* C13: two calls of GetK8sResources against the same four collections
\* return the same result as an unordered collection: for every node name
\* the same role, the same capacity values and the same device entries, a
\* node with more than one role label included.
C13_Idempotent ==
    (DoneAgain /\ previous[1].cluster = cluster)
        => SameResult(previous[1].nodeInfoList, nodeInfoList)

\* No two objects of the node list have the same name.
UniqueNodeNames ==
    \A a, b \in DOMAIN cluster.nodes :
        cluster.nodes[a].Name = cluster.nodes[b].Name => a = b

\* C20: when the node names are unique, the result as a set of NodeInfo
\* records with their Devices as a multiset is the same for every order of
\* the elements of the four fetched collections.
C20_OrderIndependent ==
    (DoneAgain /\ UniqueNodeNames)
        => SameResult(previous[1].nodeInfoList, nodeInfoList)

\* The label key k starts with the role prefix.
StartsWithRolePrefix(k) == \E n \in 0..Len(k) : SubSeq(k, 1, n) = RolePrefix

\* C14: the role of a node is "<none>" if and only if none of its label keys
\* starts with node-role.kubernetes.io/; otherwise the role is what follows
\* the prefix in one of the label keys that start with it.
C14_RoleFromLabels ==
    Done =>
        \A j \in DOMAIN nodeInfoList :
            LET info == nodeInfoList[j]
                labels == DOMAIN LastNode(info.NodeName).Labels
                matching == {k \in labels : StartsWithRolePrefix(k)}
            IN /\ info.NodeRole = NoRole <=> matching = {}
               /\ matching # {} => \E k \in matching : k = RolePrefix \o info.NodeRole

\* node-1 has the labels of two roles and a label of another kind and is
\* returned as master; node-2 has no label and is returned as "<none>".
C14_Witness ==
    /\ Done
    /\ cluster.nodes = <<Node1Again, Node2>>
    /\ \E j \in DOMAIN nodeInfoList :
          nodeInfoList[j].NodeName = "node-1" /\ nodeInfoList[j].NodeRole = "master"
    /\ \E j \in DOMAIN nodeInfoList :
          nodeInfoList[j].NodeName = "node-2" /\ nodeInfoList[j].NodeRole = NoRole

\* The value of the device's productName attribute, when it has one.
AttributeValue(dev) ==
    IF dev.Basic = <<>> THEN <<>>
    ELSE IF "productName" \notin DOMAIN dev.Basic[1].Attributes THEN <<>>
    ELSE dev.Basic[1].Attributes["productName"].StringValue

\* The display name the entries of a device are to carry.
DisplayName(rs, dev) ==
    CASE rs.Driver # NvidiaDriver -> rs.Driver
      [] rs.Driver = NvidiaDriver /\ AttributeValue(dev) = <<>> -> rs.Driver
      [] OTHER -> AttributeValue(dev)[1]

\* C15: the ProductName of a device entry is the driver name of the slice,
\* except that for the driver gpu.nvidia.com a device with a productName
\* attribute gives that attribute's string value; for any other driver the
\* attribute is ignored.
C15_DisplayName ==
    Done =>
        \A j \in DOMAIN nodeInfoList :
            LET info == nodeInfoList[j] IN
            {info.Devices[e].ProductName : e \in DOMAIN info.Devices}
            = {DisplayName(cluster.slices[kd[1]], cluster.slices[kd[1]].Devices[kd[2]]) :
                  kd \in Instances(info.NodeName)}

\* node-2 has a slice of driver a-b whose device has the attribute and a
\* slice of gpu.nvidia.com with devices with and without it; its entries are
\* named a-b, the attribute's value and gpu.nvidia.com.
C15_Witness ==
    /\ Done
    /\ cluster.slices = <<SliceOther, SliceLate>>
    /\ {InfoOf("node-2").Devices[e].ProductName : e \in DOMAIN InfoOf("node-2").Devices}
       = {"a-b", Product, NvidiaDriver}

\* The message of the error a failed list of the collection is returned with.
CollectionName(op) ==
    CASE op = "nodes" -> "nodes"
      [] op = "resourceslices" -> "ResourceSlices"
      [] op = "resourceclaims" -> "ResourceClaims"
      [] op = "pods" -> "pods"

\* C16: when a list operation fails, the error returned names the collection
\* whose list failed and wraps the underlying failure, and it is the error
\* of the first list operation that failed.
C16_ErrorOfFirstFailure ==
    (pc = "returned" /\ err # NoError) =>
        \E k \in FailedCalls :
            /\ \A l \in FailedCalls : k <= l
            /\ err = "failed to list " \o CollectionName(calls[k].op)
                        \o ": " \o calls[k].error

\* The list of the claims is the first that fails, with "forbidden".
C16_Witness ==
    /\ pc = "returned"
    /\ Len(calls) = 3
    /\ calls[3] = [op |-> "resourceclaims", error |-> "forbidden"]
    /\ err = "failed to list ResourceClaims: forbidden"

\* The order of the list operations in GetK8sResources.
ListOrder == <<"nodes", "resourceslices", "resourceclaims", "pods">>

\* C17: in one call each of the four list operations is invoked at most once,
\* in the order nodes, resource slices, resource claims, pods; after a
\* failure no further list operation is invoked; and the demand table, the
\* allocation index and the node records are built only after all four
\* list operations succeeded.
C17_ListCallsOnceInOrder ==
    /\ Len(calls) <= Len(ListOrder)
    /\ \A k \in DOMAIN calls : calls[k].op = ListOrder[k]
    /\ \A k \in FailedCalls : k = Len(calls)
    /\ (\/ pc \in {"requested", "allocated", "build", "panic"}
        \/ requestedResources # EmptyMap
        \/ allocatedDevices # EmptyMap
        \/ nodeMap # EmptyMap) => AllListed

\* The list of the slices fails after the list of the nodes: the claims and
\* the pods of the cluster are never listed and nothing is built.
C17_Witness ==
    /\ pc = "returned"
    /\ Len(calls) = 2
    /\ FailedCalls = {2}
    /\ cluster.claims # <<>>
    /\ cluster.pods # <<>>
    /\ resourceClaims = <<>>
    /\ pods = <<>>
    /\ nodeMap = EmptyMap

\* The Memory of the first device of slice k, in the order of the slice,
\* whose display name is p.
FirstMemory(k, p) ==
    LET rs == cluster.slices[k]
        named == {d \in DOMAIN rs.Devices : ProductName(rs, rs.Devices[d]) = p}
        first == CHOOSE d \in named : \A c \in named : d <= c
    IN Memory(rs.Devices[first])

\* The entry kept for the display name p of slice k.
ExpectedEntry(k, p) ==
    [ProductName |-> p,
     TotalCount |-> ExpectedCounts(k, p).TotalCount,
     AvailableCount |-> ExpectedCounts(k, p).AvailableCount,
     Memory |-> FirstMemory(k, p)]

\* C18: within one slice the Memory of an entry is the memory of the first
\* device, in the slice's order, with the entry's display name, zero when
\* that device declares none; a later device of the name adds one to
\* TotalCount and AvailableCount and never replaces the Memory.
C18_MemoryOfFirstDevice ==
    Done =>
        \A j \in DOMAIN nodeInfoList :
            LET info == nodeInfoList[j]
                entries == UNION {{<<k, p>> : p \in SliceProducts(k)} :
                                     k \in SlicesOf(info.NodeName)}
            IN \A t \in {info.Devices[e] : e \in DOMAIN info.Devices}
                        \cup {ExpectedEntry(kp[1], kp[2]) : kp \in entries} :
                  Count(info.Devices, t)
                  = Cardinality({kp \in entries : ExpectedEntry(kp[1], kp[2]) = t})

\* node-2 has a slice whose devices declare 8 and then 16, and a slice whose
\* first device declares no memory and whose second declares 8: the entries
\* have the Memory 8 and 0, each with TotalCount 2.
C18_Witness ==
    /\ Done
    /\ cluster.slices = <<SliceTwin, SliceLate>>
    /\ cluster.claims = <<>>
    /\ \E e \in DOMAIN InfoOf("node-2").Devices :
          InfoOf("node-2").Devices[e] =
              [ProductName |-> Product, TotalCount |-> 2, AvailableCount |-> 2,
               Memory |-> 8]
    /\ \E e \in DOMAIN InfoOf("node-2").Devices :
          InfoOf("node-2").Devices[e] =
              [ProductName |-> Product, TotalCount |-> 2, AvailableCount |-> 2,
               Memory |-> 0]

\* C19: for every node the TotalCount of its entries sums to the number of
\* device instances in the slices of the node, TotalCount - AvailableCount
\* sums to the number of those instances whose name is in the allocation
\* index under the key of their slice's driver and pool, and every entry has
\* a TotalCount of at least one, so that Devices is empty exactly when no
\* slice of the node lists a device.
C19_CountsConserved ==
    Done =>
        \A j \in DOMAIN nodeInfoList :
            LET info == nodeInfoList[j]
                listed == Instances(info.NodeName)
            IN /\ SumInts([e \in DOMAIN info.Devices |-> info.Devices[e].TotalCount])
                  = Cardinality(listed)
               /\ AllocatedCount(info)
                  = Cardinality({kd \in listed :
                        InIndex(cluster.slices[kd[1]],
                                cluster.slices[kd[1]].Devices[kd[2]].Name)})
               /\ \A e \in DOMAIN info.Devices : info.Devices[e].TotalCount >= 1
               /\ info.Devices = <<>> <=> listed = {}

\* node-1 has three device instances in two slices, two of them in the
\* index, and node-2 has no slice: node-1 is returned with entries that sum
\* to three of which two are allocated, node-2 with no entry.
C19_Witness ==
    /\ Done
    /\ cluster.slices = <<SliceTest, SliceMore>>
    /\ cluster.claims = <<ClaimTest, ClaimTwo>>
    /\ SumInts([e \in DOMAIN InfoOf("node-1").Devices |->
                   InfoOf("node-1").Devices[e].TotalCount]) = 3
    /\ AllocatedCount(InfoOf("node-1")) = 2
    /\ InfoOf("node-2").Devices = <<>>

====
